---- MODULE Spec2Model ----
\* Verification model of the suggestion pipeline of commandy's LlamaCppClient
\* (src/src/ai/llamacpp_client.rs): build_enhanced_prompt, generate_text,
\* parse_response, extract_commands_fallback, is_command_starter,
\* looks_like_command and is_valid_command.
\*
\* A Rust &str is modelled as a sequence of characters, each character a
\* one-element string.  The two non-ASCII characters the source names
\* (U+2192 and U+2713, line 212) are the atoms "ARROW" and "CHECK"; str::len()
\* counts UTF-8 bytes, so each of them weighs three.
EXTENDS Integers, Sequences, FiniteSets, TLC

\* ---------------------------------------------------------------------------
\* Bounds of the model
\* ---------------------------------------------------------------------------

\* requested maximum of suggestions ranges over 0..MaxSuggestions
MaxSuggestions == 3

\* ---------------------------------------------------------------------------
\* Program constants
\* ---------------------------------------------------------------------------

MaxLineLen == 300

MaxCommandLen == 500

MaxWordLen == 100

ToolsLimit == 20

RecentLimit == 3

PatternsLimit == 5

\* confidence in tenths: 0.8 and 0.6
PrimaryConfidence == 8

FallbackConfidence == 6

\* ---------------------------------------------------------------------------
\* str primitives
\* ---------------------------------------------------------------------------

WideChars == {"ARROW", "CHECK"}

\* char::is_ascii_punctuation (the atom "BACKTICK" is U+0060)
AsciiPunctuation ==
    {"!","\"","#","$","%","&","'","(",")","*","+",",","-",".","/",":",";","<",
     "=",">","?","@","[","\\","]","^","_","BACKTICK","{","|","}","~"}

UpperCase ==
    <<"A","B","C","D","E","F","G","H","I","J","K","L","M","N","O","P","Q","R",
      "S","T","U","V","W","X","Y","Z">>

LowerCase ==
    <<"a","b","c","d","e","f","g","h","i","j","k","l","m","n","o","p","q","r",
      "s","t","u","v","w","x","y","z">>

\* str::len(): the length in UTF-8 bytes
ByteLen(s) == Len(s) + 2 * Cardinality({i \in 1..Len(s) : s[i] \in WideChars})

\* str::contains(&str)
Contains(s, p) ==
    \E i \in 1..(Len(s) - Len(p) + 1) : \A j \in 1..Len(p) : s[i + j - 1] = p[j]

\* str::starts_with(char)
StartsWith(s, c) == Len(s) > 0 /\ s[1] = c

\* str::ends_with(char)
EndsWith(s, c) == Len(s) > 0 /\ s[Len(s)] = c

\* the least element of a non-empty set of integers
Least(S) == CHOOSE k \in S : \A j \in S : k <= j

\* the greatest element of a non-empty set of integers
Greatest(S) == CHOOSE k \in S : \A j \in S : k >= j

\* index of the first character at or after i that is not in cs (Len(s)+1 if none)
SkipWhile(s, i, cs) ==
    LET rest == {k \in i..Len(s) : s[k] \notin cs}
    IN  IF rest = {} THEN (IF i > Len(s) THEN i ELSE Len(s) + 1) ELSE Least(rest)

\* index of the last character at or before i that is not in cs (0 if none)
SkipBackWhile(s, i, cs) ==
    LET rest == {k \in 1..i : s[k] \notin cs}
    IN  IF rest = {} THEN 0 ELSE Greatest(rest)

\* index of the first character at or after i that is in cs (Len(s)+1 if none)
SkipUntil(s, i, cs) ==
    LET hits == {k \in i..Len(s) : s[k] \in cs}
    IN  IF hits = {} THEN (IF i > Len(s) THEN i ELSE Len(s) + 1) ELSE Least(hits)

\* char::is_whitespace, restricted to the characters of the model
Whitespace == {" ", "\n", "\t", "\r"}

\* str::trim_start_matches(set of chars)
TrimStartMatches(s, cs) == SubSeq(s, SkipWhile(s, 1, cs), Len(s))

\* str::trim_end_matches(set of chars)
TrimEndMatches(s, cs) == SubSeq(s, 1, SkipBackWhile(s, Len(s), cs))

\* str::trim()
Trim(s) == TrimEndMatches(TrimStartMatches(s, Whitespace), Whitespace)

RECURSIVE SplitFrom(_, _, _)
\* the maximal runs of characters outside cs, from index i on
SplitFrom(s, i, cs) ==
    LET b == SkipWhile(s, i, cs)
        e == SkipUntil(s, b, cs)
    IN  IF b > Len(s) THEN <<>>
        ELSE <<SubSeq(s, b, e - 1)>> \o SplitFrom(s, e, cs)

\* str::split_whitespace().collect()
SplitWhitespace(s) == SplitFrom(s, 1, Whitespace)

\* str::split_whitespace().next().unwrap_or("")
FirstWord(s) ==
    LET b == SkipWhile(s, 1, Whitespace)
    IN  SubSeq(s, b, SkipUntil(s, b, Whitespace) - 1)

RECURSIVE SplitOnFrom(_, _, _)
\* str::split(char): the pieces between occurrences of c, empty ones kept
SplitOnFrom(s, i, c) ==
    LET e == SkipUntil(s, i, {c})
    IN  IF e > Len(s) THEN <<SubSeq(s, i, Len(s))>>
        ELSE <<SubSeq(s, i, e - 1)>> \o SplitOnFrom(s, e + 1, c)

Split(s, c) == SplitOnFrom(s, 1, c)

\* str::lines(): split at "\n", a final empty piece dropped, one trailing "\r"
\* of each line dropped
Lines(s) ==
    LET raw == Split(s, "\n")
        kept == IF raw[Len(raw)] = <<>> THEN SubSeq(raw, 1, Len(raw) - 1) ELSE raw
    IN  [k \in 1..Len(kept) |->
            IF EndsWith(kept[k], "\r") THEN SubSeq(kept[k], 1, Len(kept[k]) - 1)
            ELSE kept[k]]

RECURSIVE Join(_, _)
\* [&str]::join(sep)
Join(ss, sep) ==
    IF ss = <<>> THEN <<>>
    ELSE IF Len(ss) = 1 THEN ss[1]
    ELSE ss[1] \o sep \o Join(Tail(ss), sep)

\* Iterator::take(n)
Take(ss, n) == SubSeq(ss, 1, IF Len(ss) < n THEN Len(ss) ELSE n)

\* char::to_lowercase, for the letters of the model
LowerChar(c) ==
    IF \E k \in 1..Len(UpperCase) : UpperCase[k] = c
    THEN LowerCase[CHOOSE k \in 1..Len(UpperCase) : UpperCase[k] = c]
    ELSE c

\* str::to_lowercase()
ToLowercase(s) == [i \in 1..Len(s) |-> LowerChar(s[i])]

\* ---------------------------------------------------------------------------
\* Command vocabulary and validator
\* ---------------------------------------------------------------------------

CommandStarters ==
    { <<"l","s">>, <<"c","d">>, <<"g","r","e","p">>,
      <<"f","i","n","d">>, <<"d","o","c","k","e","r">>, <<"k","u","b","e","c","t","l">>,
      <<"g","i","t">>, <<"c","u","r","l">>, <<"w","g","e","t">>,
      <<"s","s","h">>, <<"s","u","d","o">>, <<"c","p">>,
      <<"m","v">>, <<"r","m">>, <<"c","a","t">>,
      <<"t","a","i","l">>, <<"h","e","a","d">>, <<"p","s">>,
      <<"k","i","l","l">>, <<"t","o","p">>, <<"d","f">>,
      <<"d","u">>, <<"t","a","r">>, <<"z","i","p">>,
      <<"u","n","z","i","p">>, <<"c","h","m","o","d">>, <<"c","h","o","w","n">>,
      <<"s","y","s","t","e","m","c","t","l">>, <<"s","e","r","v","i","c","e">>, <<"a","p","t">>,
      <<"y","u","m">>, <<"n","p","m">>, <<"y","a","r","n">>,
      <<"p","i","p">>, <<"c","a","r","g","o">>, <<"m","a","k","e">>,
      <<"c","m","a","k","e">>, <<"r","s","y","n","c">>, <<"s","c","p">>,
      <<"a","w","k">>, <<"s","e","d">>, <<"s","o","r","t">>,
      <<"u","n","i","q">>, <<"c","u","t">>, <<"t","r">>,
      <<"x","a","r","g","s">> }

ShellBuiltins ==
    { <<"c","d">>, <<"e","c","h","o">>, <<"p","w","d">>,
      <<"e","x","p","o","r","t">>, <<"a","l","i","a","s">> }

dangerous_patterns ==
    << <<"r","m"," ","-","r","f"," ","/">>,
       <<"r","m"," ","-","r","f"," ","*">>,
       <<"d","d"," ","i","f","=">>,
       <<"m","k","f","s">>,
       <<"f","d","i","s","k">>,
       <<">"," ","/","d","e","v","/">> >>

pseudo_patterns ==
    << <<" ","q","u","e","r","y"," ">>,
       <<" ","a","p","i"," ">>,
       <<" ","e","n","d","p","o","i","n","t"," ">>,
       <<" ","s","e","r","v","i","c","e"," ">> >>

\* is_command_starter with "ps" missing from the vocabulary
is_command_starter_without_ps(word) ==
    TrimStartMatches(word, AsciiPunctuation) \in (CommandStarters \ {<<"p","s">>})

\* fn is_command_starter(&self, word)
is_command_starter(word) ==
    TrimStartMatches(word, AsciiPunctuation) \in CommandStarters

\* looks_like_command without the flag heuristics of line 346
looks_like_command_starter_only(line) == is_command_starter(FirstWord(line))

\* fn looks_like_command(&self, line)
looks_like_command(line) ==
    LET first_word == FirstWord(line)
    IN  IF is_command_starter(first_word) THEN TRUE
        ELSE Contains(line, <<"-","-">>)
             \/ (Contains(line, <<"-">>) /\ Len(SplitWhitespace(line)) > 1)

\* is_valid_command with the PATH lookup and the builtin test ahead of the
\* denylist
is_valid_command_lookup_first(command, path) ==
    IF command = <<>> \/ ByteLen(command) > MaxCommandLen
    THEN FALSE
    ELSE LET first_word == Trim(FirstWord(command))
         IN  IF first_word = <<>> \/ StartsWith(first_word, "#") THEN FALSE
             ELSE IF first_word \in path THEN TRUE
             ELSE IF Contains(first_word, <<"/">>) \/ first_word \in ShellBuiltins
             THEN TRUE
             ELSE FALSE

\* is_valid_command with the pseudo-command test ahead of the PATH lookup
is_valid_command_pseudo_first(command, path) ==
    IF \E k \in 1..Len(dangerous_patterns) : Contains(command, dangerous_patterns[k])
    THEN FALSE
    ELSE IF command = <<>> \/ ByteLen(command) > MaxCommandLen
    THEN FALSE
    ELSE LET first_word == Trim(FirstWord(command))
         IN  IF first_word = <<>> \/ StartsWith(first_word, "#") THEN FALSE
             ELSE IF \E k \in 1..Len(pseudo_patterns) :
                         Contains(ToLowercase(command), pseudo_patterns[k])
             THEN FALSE
             ELSE IF first_word \in path THEN TRUE
             ELSE IF Contains(first_word, <<"/">>) \/ first_word \in ShellBuiltins
             THEN TRUE
             ELSE FALSE

\* fn is_valid_command(&self, command); path is the set of names for which
\* `which <name>` exits successfully
is_valid_command(command, path) ==
    IF \E k \in 1..Len(dangerous_patterns) : Contains(command, dangerous_patterns[k])
    THEN FALSE
    ELSE IF command = <<>> \/ ByteLen(command) > MaxCommandLen
    THEN FALSE
    ELSE LET first_word == Trim(FirstWord(command))
         IN  IF first_word = <<>> \/ StartsWith(first_word, "#") THEN FALSE
             ELSE IF first_word \in path THEN TRUE
             ELSE IF Contains(first_word, <<"/">>) \/ first_word \in ShellBuiltins
             THEN TRUE
             ELSE IF \E k \in 1..Len(pseudo_patterns) :
                         Contains(ToLowercase(command), pseudo_patterns[k])
             THEN FALSE
             ELSE FALSE

\* ---------------------------------------------------------------------------
\* Prompt builder
\* ---------------------------------------------------------------------------

\* The literal chunks of the format! template (lines 172-206) and of the two
\* push_str calls; each chunk is one atom of the prompt string.
TplRequest == "Generate ONLY valid shell commands for: "

TplOs == "\n\nSystem Information:\n- OS: "

TplShell == "\n- Shell: "

TplTools == "\n- Available executables: "

TplRecent == "\n- Recent commands: "

TplRules == "\n\nCRITICAL REQUIREMENTS:\n1. Commands MUST use only executables that exist in PATH\n2. Start with real command names, not pseudo-commands\n3. Use proper shell syntax\n4. Be directly executable\n5. Provide safe, practical solutions\n\nOutput format: Return 1-3 shell commands, each on a new line.\nExample format:\ndocker ps -a\nls -la /var/log\ngrep -r \"error\" /var/log/\n\nCommands for: "

TplLearned == "\n\nLearned patterns:\n"

TplCue == "\n\nCommands:"

\* HashMap::get(key).map_or(default, ...)
EnvGetOr(environment, key, default) ==
    IF key \in DOMAIN environment THEN environment[key] ELSE default

\* .filter(|line| line.contains(ARROW) || line.contains(CHECK))
RECURSIVE FilterMarked(_)
FilterMarked(ls) ==
    IF ls = <<>> THEN <<>>
    ELSE (IF Contains(ls[1], <<"ARROW">>) \/ Contains(ls[1], <<"CHECK">>)
          THEN <<ls[1]>> ELSE <<>>) \o FilterMarked(Tail(ls))

\* v.split(',').take(20).collect().join(", "), or "basic"
AvailableTools(environment) ==
    IF "available_tools" \in DOMAIN environment
    THEN Join(Take(Split(environment["available_tools"], ","), ToolsLimit), <<",", " ">>)
    ELSE <<"b","a","s","i","c">>

\* recent_commands.iter().take(3).map(first word).collect().join(", ")
RecentWords(recent_commands) ==
    LET taken == Take(recent_commands, RecentLimit)
    IN  Join([k \in 1..Len(taken) |-> FirstWord(taken[k])], <<",", " ">>)

\* the learned lines with take(5) ahead of the filter
RelevantPatternsTakeFirst(context_content) ==
    FilterMarked(Take(Lines(context_content), PatternsLimit))

\* context_content.lines().filter(marked).take(5).collect()
RelevantPatterns(context_content) ==
    Take(FilterMarked(Lines(context_content)), PatternsLimit)

\* fn build_enhanced_prompt(&self, user_prompt, context)
build_enhanced_prompt(prompt, ctx) ==
    LET environment == ctx.environment
        base == <<TplRequest>> \o prompt
                \o <<TplOs>> \o EnvGetOr(environment, "os", <<"u","n","k","n","o","w","n">>)
                \o <<TplShell>> \o EnvGetOr(environment, "shell", <<"u","n","k","n","o","w","n">>)
                \o <<TplTools>> \o AvailableTools(environment)
                \o <<TplRecent>> \o RecentWords(ctx.recent_commands)
                \o <<TplRules>> \o prompt
        relevant_patterns == RelevantPatterns(ctx.content)
        learned == IF ctx.content # <<>> /\ relevant_patterns # <<>>
                   THEN <<TplLearned>> \o Join(relevant_patterns, <<"\n">>)
                   ELSE <<>>
    IN  base \o learned \o <<TplCue>>

\* ---------------------------------------------------------------------------
\* Suggestions
\* ---------------------------------------------------------------------------

\* Suggestion { command, explanation: None, confidence }
Suggestion(command, confidence) ==
    [command |-> command, explanation |-> "None", confidence |-> confidence]

\* ---------------------------------------------------------------------------
\* Inputs
\* ---------------------------------------------------------------------------

\* number of pieces of an enumerated engine output
MaxPieces == 3

\* number of 100-byte words appended in the long engine outputs
MaxLongWords == 6

\* the pieces engine outputs are enumerated from; an output is pieces joined by
\* single spaces
OutputPieces ==
    { <<"l","s">>, <<"-","l","a">>, <<"\n">>, <<"t","r","y">>, <<"n","o","w",".">>, <<"c","d">>, <<"m","k","f","s">>, <<"#","l","s">>,
      <<".","/","x">>, <<"(","l","s">> }

\* n copies of character c
Repeat(c, n) == [i \in 1..n |-> c]

RECURSIVE WithWords(_, _, _)
\* head followed by n copies of " " and word
WithWords(head, word, n) ==
    IF n = 0 THEN head ELSE WithWords(head, word, n - 1) \o <<" ">> \o word

\* "ls -la\n# comment\ndocker ps -a\n"
ScenarioLines == <<"l","s"," ","-","l","a","\n","#"," ","c","o","m","m","e","n","t","\n","d","o","c","k","e","r"," ","p","s"," ","-","a","\n">>

\* "You should try docker ps -a to see containers."
ScenarioProse == <<"Y","o","u"," ","s","h","o","u","l","d"," ","t","r","y"," ","d","o","c","k","e","r"," ","p","s"," ","-","a"," ","t","o"," ","s","e","e"," ","c","o","n","t","a","i","n","e","r","s",".">>

EnumeratedOutputs ==
    { Join(ps, <<" ">>) : ps \in UNION {[1..n -> OutputPieces] : n \in 0..MaxPieces} }

\* "ls" followed by up to MaxLongWords words of 100 ASCII bytes, of 33 ARROW
\* characters (99 bytes) or of 101 ASCII bytes, with and without a final "."
LongOutputs ==
    UNION { { WithWords(<<"l","s">>, w, n), WithWords(<<"l","s">>, w, n) \o <<".">> } :
              w \in {Repeat("x", MaxWordLen), Repeat("ARROW", 33), Repeat("x", MaxWordLen + 1)},
              n \in 1..MaxLongWords }

\* prose "try <starter> <starter><marks>": a sentence whose last word is a
\* command name followed by sentence punctuation
SentenceOutputs ==
    { <<"t","r","y"," ">> \o a \o <<" ">> \o b \o marks :
        a \in {<<"l","s">>, <<"c","d">>},
        b \in {<<"l","s">>, <<"c","d">>, <<"-","l","a">>},
        marks \in {<<".">>, <<"!">>, <<"?">>, <<".",".",".">>} }

EngineStdouts ==
    EnumeratedOutputs \cup LongOutputs \cup SentenceOutputs
    \cup {ScenarioLines, ScenarioProse, ScenarioLines \o ScenarioProse}

EngineStderrs == { <<>>, <<"o","o","m">> }

\* the outcomes of `which`: the names that resolve in PATH
Resolvers ==
    { {}, {<<"l","s">>, <<"d","o","c","k","e","r">>, <<"p","s">>, <<"r","m">>}, {<<"l","s">>, <<"d","o","c","k","e","r">>, <<"p","s">>, <<"r","m">>, <<"t","r","y">>} }

UserPrompts == { <<"l","i","s","t">> }

\* number of comma-separated entries of the "available_tools" value
MaxTools == 22

\* number of recent commands
MaxRecent == 4

\* number of lines of the learned text
MaxLearned == 7

\* "a,b,c,...": n one-letter entries
ToolsValue(n) == Join([k \in 1..n |-> <<LowerCase[k]>>], <<",">>)

Environments ==
    { [os |-> <<"l","i","n","u","x">>, shell |-> <<"b","a","s","h">>, available_tools |-> ToolsValue(n)] : n \in 0..MaxTools }
    \cup { [os |-> <<"l","i","n","u","x">>, shell |-> <<"b","a","s","h">>, available_tools |-> <<"l","s",",","g","r","e","p",",","d","o","c","k","e","r">>],
           [os |-> <<"l","i","n","u","x">>],
           [k \in {} |-> <<>>] }

\* n commands "a -A", "b -B", ...
RecentList(n) == [k \in 1..n |-> <<LowerCase[k], " ", "-", UpperCase[k]>>]

RecentCommandLists ==
    { RecentList(n) : n \in 0..MaxRecent }
    \cup { <<<<" ">>>> \o RecentList(n) : n \in 0..MaxRecent }
    \cup { <<<<"d","o","c","k","e","r"," ","p","s"," ","-","a">>>> }

\* line k of a learned text: marked with ARROW or CHECK, or plain
LearnedLine(k, marked) ==
    IF ~marked THEN <<"n", "o", LowerCase[k]>>
    ELSE IF k % 2 = 1 THEN <<LowerCase[k], "ARROW", UpperCase[k]>>
    ELSE <<"CHECK", LowerCase[k]>>

\* n lines, those at the positions of `plain` unmarked
LearnedText(n, plain) == Join([k \in 1..n |-> LearnedLine(k, k \notin plain)], <<"\n">>)

LearnedTexts ==
    { LearnedText(n, plain) : n \in 0..MaxLearned,
                              plain \in { {}, {1, 4}, {2, 3, 6}, 1..MaxLearned } }

PromptContexts ==
    [environment : Environments, recent_commands : RecentCommandLists, content : LearnedTexts]

\* context {os: linux, shell: bash, available_tools: "ls,grep,docker"}, recent
\* commands ["docker ps -a"]
RequestContext ==
    [environment |-> [os |-> <<"l","i","n","u","x">>, shell |-> <<"b","a","s","h">>, available_tools |-> <<"l","s",",","g","r","e","p",",","d","o","c","k","e","r">>],
     recent_commands |-> <<<<"d","o","c","k","e","r"," ","p","s"," ","-","a">>>>,
     content |-> <<>>]

CandidateHeads ==
    { <<"l","s">>, <<"t","r","y">>, <<"c","d">>, <<".","/","x">>, <<"#","l","s">>, <<"e","c","h","o">>, <<" ">> \o <<"l","s">> }

CandidateTails ==
    { <<>>, <<" ","-","l","a">>, <<" ","a"," ","q","u","e","r","y"," ","b">>, <<" ","t","h","e"," ","A","P","I"," ","n","o","w">> }
    \cup { <<" ">> \o dangerous_patterns[k] \o <<" ", "z">> : k \in 1..Len(dangerous_patterns) }
    \cup { <<" ", "x">> \o dangerous_patterns[k] : k \in 1..Len(dangerous_patterns) }
    \cup { WithWords(<<>>, w, n) : w \in {Repeat("x", MaxWordLen), Repeat("ARROW", 33)},
                                   n \in 4..MaxLongWords }
    \cup { <<" ">> \o Repeat("x", MaxCommandLen - 3), <<" ">> \o Repeat("x", MaxCommandLen - 2) }

Candidates ==
    { h \o tl : h \in CandidateHeads, tl \in CandidateTails }
    \cup { dangerous_patterns[k] : k \in 1..Len(dangerous_patterns) }
    \cup { <<>>, <<" ">> }

\* ---------------------------------------------------------------------------
\* State
\* ---------------------------------------------------------------------------

\* line 237: the lines the Primary loop skips
PrimarySkips(line) ==
    line = <<>> \/ StartsWith(line, "#") \/ ByteLen(line) > MaxLineLen

\* line 242 without the call of is_valid_command
PrimaryAcceptsUnvalidated(line, resolvable) == looks_like_command(line)

\* line 242: the lines the Primary loop turns into suggestions
PrimaryAccepts(line, resolvable) ==
    looks_like_command(line) /\ is_valid_command(line, resolvable)

\* lines 249, 285, 303: suggestions.len() >= max_suggestions
ReachedMax(list, max) == Len(list) >= max

\* line 256 testing the maximum instead of emptiness
FallbackNeededBelowMax(list) == Len(list) < 2

\* line 256: suggestions.is_empty()
FallbackNeeded(list) == list = <<>>

\* line 295: the word ends a sentence
SentenceEnd(word) == EndsWith(word, ".") \/ EndsWith(word, "!") \/ EndsWith(word, "?")

\* a Fallback suggestion built with the Primary confidence
FallbackSuggestionAsPrimary(text) == Suggestion(text, PrimaryConfidence)

\* lines 279-283, 297-301, 314-318: a Fallback suggestion
FallbackSuggestion(text) == Suggestion(text, FallbackConfidence)

\* lines 243-247: a Primary suggestion
PrimarySuggestion(text) == Suggestion(text, PrimaryConfidence)

VARIABLES
    op,               \* the method under execution
    pc,               \* the position in it
    user_prompt,      \* generate_suggestions / build_enhanced_prompt argument
    context,          \* generate_suggestions / build_enhanced_prompt argument
    max_suggestions,  \* generate_suggestions argument
    path,             \* the names `which` resolves during the call
    command,          \* is_valid_command argument
    valid,            \* is_valid_command result
    enhanced_prompt,  \* the built prompt
    engine_calls,     \* number of times the engine process was started
    engine_status,    \* how the engine process ended
    engine_stderr,    \* the standard error captured from it
    response,         \* generate_text's Ok value
    lines,            \* response.lines(), the iterator of the Primary loop
    li,               \* index of the next line
    suggestions,      \* parse_response's suggestions
    words,            \* extract_commands_fallback's words
    wi,               \* index of the next word
    current_command,  \* extract_commands_fallback's current_command
    fb_suggestions,   \* extract_commands_fallback's suggestions
    result            \* what the method returned

vars ==
    <<op, pc, user_prompt, context, max_suggestions, path, command, valid,
      enhanced_prompt, engine_calls, engine_status, engine_stderr,
                   response, lines, li, suggestions, words, wi,
      current_command, fb_suggestions, result>>

NoContext == [environment |-> [k \in {} |-> <<>>], recent_commands |-> <<>>, content |-> <<>>]

NoResult == [kind |-> "none"]

Locals ==
    /\ enhanced_prompt = <<>>
    /\ engine_calls = 0
    /\ engine_status = "none"
    /\ engine_stderr = <<>>
    /\ response = <<>>
    /\ lines = <<>>
    /\ li = 0
    /\ suggestions = <<>>
    /\ words = <<>>
    /\ wi = 0
    /\ current_command = <<>>
    /\ fb_suggestions = <<>>
    /\ result = NoResult
    /\ valid = "none"

\* a call of generate_suggestions(prompt, context, max_suggestions)
InitGenerate ==
    /\ op = "generate_suggestions"
    /\ pc = "build_prompt"
    /\ user_prompt \in UserPrompts
    /\ context = RequestContext
    /\ max_suggestions \in 0..MaxSuggestions
    /\ path \in Resolvers
    /\ command = <<>>
    /\ Locals

\* a call of build_enhanced_prompt(user_prompt, context)
InitBuild ==
    /\ op = "build_enhanced_prompt"
    /\ pc = "build_prompt"
    /\ user_prompt \in UserPrompts
    /\ context \in PromptContexts
    /\ max_suggestions = 0
    /\ path = {}
    /\ command = <<>>
    /\ Locals

\* a call of is_valid_command(command)
InitValidate ==
    /\ op = "is_valid_command"
    /\ pc = "validate"
    /\ user_prompt = <<>>
    /\ context = NoContext
    /\ max_suggestions = 0
    /\ path \in Resolvers
    /\ command \in Candidates
    /\ Locals

Init == InitGenerate \/ InitBuild \/ InitValidate

\* ---------------------------------------------------------------------------
\* Actions
\* ---------------------------------------------------------------------------

\* line 111 (and the whole of a direct build_enhanced_prompt call)
BuildPrompt ==
    /\ pc = "build_prompt"
    /\ enhanced_prompt' = build_enhanced_prompt(user_prompt, context)
    /\ IF op = "generate_suggestions"
       THEN pc' = "generate_text" /\ result' = result
       ELSE pc' = "returned" /\ result' = [kind |-> "ok", value |-> enhanced_prompt']
    /\ UNCHANGED <<op, user_prompt, context, max_suggestions, path, command, valid,
                   engine_calls, engine_status, engine_stderr,
                   response, lines, li, suggestions, words, wi,
                   current_command, fb_suggestions>>

\* the whole of a direct is_valid_command call
Validate ==
    /\ pc = "validate"
    /\ valid' = is_valid_command(command, path)
    /\ pc' = "returned"
    /\ result' = [kind |-> "ok", value |-> valid']
    /\ UNCHANGED <<op, user_prompt, context, max_suggestions, path, command,
                   enhanced_prompt, engine_calls, engine_status, engine_stderr,
                   response, lines, li, suggestions,
                   words, wi, current_command, fb_suggestions>>

\* lines 112, 143: command.output() fails, the `?`s return the error
GenerateTextSpawnError ==
    /\ pc = "generate_text"
    /\ engine_calls' = engine_calls + 1
    /\ engine_status' = "not_started"
    /\ engine_stderr' = engine_stderr
    /\ result' = [kind |-> "err", message |-> <<"Failed to execute llama.cpp">>]
    /\ pc' = "returned"
    /\ UNCHANGED <<op, user_prompt, context, max_suggestions, path, command, valid,
                   enhanced_prompt, response, lines, li, suggestions, words, wi,
                   current_command, fb_suggestions>>

\* generate_text without the test of the exit status: the output is parsed
GenerateTextExitIgnored ==
    /\ pc = "generate_text"
    /\ \E stdout \in EngineStdouts : response' = Trim(stdout)
    /\ \E stderr \in EngineStderrs : engine_stderr' = stderr
    /\ engine_status' = "exit_nonzero"
    /\ engine_calls' = engine_calls + 1
    /\ pc' = "parse_response"
    /\ UNCHANGED <<op, user_prompt, context, max_suggestions, path, command, valid,
                   enhanced_prompt, lines, li, suggestions, words, wi,
                   current_command, fb_suggestions, result>>

\* lines 112, 143-151: the engine exits with a non-zero status
GenerateTextExitError ==
    /\ pc = "generate_text"
    /\ \E stderr \in EngineStderrs :
          /\ engine_stderr' = stderr
          /\ result' = [kind |-> "err",
                        message |-> <<"llama.cpp execution failed: ">> \o stderr]
    /\ engine_status' = "exit_nonzero"
    /\ engine_calls' = engine_calls + 1
    /\ pc' = "returned"
    /\ UNCHANGED <<op, user_prompt, context, max_suggestions, path, command, valid,
                   enhanced_prompt, response, lines, li, suggestions, words, wi,
                   current_command, fb_suggestions>>

\* lines 112, 143-157: the engine exits with status 0
GenerateTextOk ==
    /\ pc = "generate_text"
    /\ \E stdout \in EngineStdouts : response' = Trim(stdout)
    /\ engine_stderr' = <<>>
    /\ engine_status' = "exit_zero"
    /\ engine_calls' = engine_calls + 1
    /\ pc' = "parse_response"
    /\ UNCHANGED <<op, user_prompt, context, max_suggestions, path, command, valid,
                   enhanced_prompt, lines, li, suggestions, words, wi,
                   current_command, fb_suggestions, result>>

\* lines 113, 227-233: parse_response is entered
ParseResponse ==
    /\ pc = "parse_response"
    /\ suggestions' = <<>>
    /\ lines' = Lines(response)
    /\ li' = 1
    /\ pc' = "primary"
    /\ UNCHANGED <<op, user_prompt, context, max_suggestions, path, command, valid,
                   enhanced_prompt, engine_calls, engine_status, engine_stderr,
                   response, words, wi,
                   current_command, fb_suggestions, result>>

\* lines 233-253: one iteration of the Primary loop
PrimaryLine ==
    /\ pc = "primary"
    /\ li <= Len(lines)
    /\ LET line == Trim(lines[li])
       IN  IF PrimarySkips(line)
           THEN suggestions' = suggestions /\ pc' = pc
           ELSE IF PrimaryAccepts(line, path)
           THEN /\ suggestions' = Append(suggestions, PrimarySuggestion(line))
                /\ pc' = IF ReachedMax(suggestions', max_suggestions)
                         THEN "check_empty" ELSE pc
           ELSE suggestions' = suggestions /\ pc' = pc
    /\ li' = li + 1
    /\ UNCHANGED <<op, user_prompt, context, max_suggestions, path, command, valid,
                   enhanced_prompt, engine_calls, engine_status, engine_stderr,
                   response, lines, words, wi,
                   current_command, fb_suggestions, result>>

\* line 233: the lines are exhausted
PrimaryEnd ==
    /\ pc = "primary"
    /\ li > Len(lines)
    /\ pc' = "check_empty"
    /\ UNCHANGED <<op, user_prompt, context, max_suggestions, path, command, valid,
                   enhanced_prompt, engine_calls, engine_status, engine_stderr,
                   response, lines, li, suggestions,
                   words, wi, current_command, fb_suggestions, result>>

\* lines 256-257, 264-269: Primary found nothing, extract_commands_fallback is entered
EnterFallback ==
    /\ pc = "check_empty"
    /\ FallbackNeeded(suggestions)
    /\ fb_suggestions' = <<>>
    /\ words' = SplitWhitespace(response)
    /\ wi' = 1
    /\ current_command' = <<>>
    /\ pc' = "fallback"
    /\ UNCHANGED <<op, user_prompt, context, max_suggestions, path, command, valid,
                   enhanced_prompt, engine_calls, engine_status, engine_stderr,
                   response, lines, li, suggestions,
                   result>>

\* lines 256, 260: Primary found something, its list is what parse_response returns
SkipFallback ==
    /\ pc = "check_empty"
    /\ ~FallbackNeeded(suggestions)
    /\ pc' = "parse_return"
    /\ UNCHANGED <<op, user_prompt, context, max_suggestions, path, command, valid,
                   enhanced_prompt, engine_calls, engine_status, engine_stderr,
                   response, lines, li, suggestions,
                   words, wi, current_command, fb_suggestions, result>>

\* lines 271-310: one iteration of the Fallback loop
FallbackWord ==
    /\ pc = "fallback"
    /\ wi <= Len(words)
    /\ LET word == words[wi]
           appended == current_command \o <<" ">> \o word
       IN  IF ByteLen(word) > MaxWordLen
           THEN /\ UNCHANGED <<fb_suggestions, current_command>>
                /\ pc' = pc
           ELSE IF is_command_starter(word)
           THEN IF current_command # <<>> /\ is_valid_command(current_command, path)
                THEN /\ fb_suggestions' =
                           Append(fb_suggestions, FallbackSuggestion(Trim(current_command)))
                     /\ IF ReachedMax(fb_suggestions', max_suggestions)
                        THEN pc' = "fallback_flush" /\ current_command' = current_command
                        ELSE pc' = pc /\ current_command' = word
                ELSE /\ fb_suggestions' = fb_suggestions
                     /\ current_command' = word
                     /\ pc' = pc
           ELSE IF current_command # <<>>
           THEN IF SentenceEnd(word)
                THEN IF is_valid_command(appended, path)
                     THEN /\ fb_suggestions' =
                                Append(fb_suggestions,
                                       FallbackSuggestion(
                                           TrimEndMatches(appended, {".", "!", "?"})))
                          /\ IF ReachedMax(fb_suggestions', max_suggestions)
                             THEN pc' = "fallback_flush" /\ current_command' = appended
                             ELSE pc' = pc /\ current_command' = <<>>
                     ELSE /\ fb_suggestions' = fb_suggestions
                          /\ current_command' = <<>>
                          /\ pc' = pc
                ELSE /\ fb_suggestions' = fb_suggestions
                     /\ current_command' = appended
                     /\ pc' = pc
           ELSE /\ UNCHANGED <<fb_suggestions, current_command>>
                /\ pc' = pc
    /\ wi' = wi + 1
    /\ UNCHANGED <<op, user_prompt, context, max_suggestions, path, command, valid,
                   enhanced_prompt, engine_calls, engine_status, engine_stderr,
                   response, lines, li, suggestions,
                   words, result>>

\* line 271: the words are exhausted
FallbackEnd ==
    /\ pc = "fallback"
    /\ wi > Len(words)
    /\ pc' = "fallback_flush"
    /\ UNCHANGED <<op, user_prompt, context, max_suggestions, path, command, valid,
                   enhanced_prompt, engine_calls, engine_status, engine_stderr,
                   response, lines, li, suggestions,
                   words, wi, current_command, fb_suggestions, result>>

\* lines 312-321, 257: the last command is flushed, extract_commands_fallback
\* returns and parse_response takes its list
FallbackFlush ==
    /\ pc = "fallback_flush"
    /\ fb_suggestions' =
          IF current_command # <<>> /\ is_valid_command(current_command, path)
          THEN Append(fb_suggestions, FallbackSuggestion(Trim(current_command)))
          ELSE fb_suggestions
    /\ suggestions' = fb_suggestions'
    /\ pc' = "parse_return"
    /\ UNCHANGED <<op, user_prompt, context, max_suggestions, path, command, valid,
                   enhanced_prompt, engine_calls, engine_status, engine_stderr,
                   response, lines, li, words, wi,
                   current_command, result>>

\* lines 260, 113-116: parse_response returns, generate_suggestions returns Ok
ReturnSuggestions ==
    /\ pc = "parse_return"
    /\ result' = [kind |-> "ok", value |-> suggestions]
    /\ pc' = "returned"
    /\ UNCHANGED <<op, user_prompt, context, max_suggestions, path, command, valid,
                   enhanced_prompt, engine_calls, engine_status, engine_stderr,
                   response, lines, li, suggestions,
                   words, wi, current_command, fb_suggestions>>

Next ==
    \/ BuildPrompt
    \/ Validate
    \/ GenerateTextSpawnError
    \/ GenerateTextExitError
    \/ GenerateTextOk
    \/ ParseResponse
    \/ PrimaryLine
    \/ PrimaryEnd
    \/ EnterFallback
    \/ SkipFallback
    \/ FallbackWord
    \/ FallbackEnd
    \/ FallbackFlush
    \/ ReturnSuggestions

Spec == Init /\ [][Next]_vars
\* ---------------------------------------------------------------------------
\* Properties
\* ---------------------------------------------------------------------------

\* generate_suggestions has returned Ok(list)
ReturnedList ==
    op = "generate_suggestions" /\ pc = "returned" /\ result.kind = "ok"

\* is_valid_command has returned
ReturnedValid == op = "is_valid_command" /\ pc = "returned"

\* the command texts of a list of suggestions
Commands(list) == [i \in 1..Len(list) |-> list[i].command]

\* the Fallback strategy was entered during this call
FallbackRan == wi > 0

\* C1: the list parse_response (and so generate_suggestions) returns has at
\* most max_suggestions entries, for every output, resolver outcome and maximum
\* (0 included), from Primary and from Fallback, the end-of-input flush after a
\* break included.
C1_AtMostMax == ReturnedList => Len(result.value) <= max_suggestions

\* C2: every returned suggestion has a command text that is non-empty, at most
\* 500 characters long and accepted by is_valid_command under the same resolver
\* outcomes, Fallback texts with trailing '.', '!' or '?' removed included.
C2_ReturnedCommandsValid ==
    ReturnedList =>
        \A i \in 1..Len(result.value) :
            LET text == result.value[i].command
            IN  /\ text # <<>>
                /\ Len(text) <= 500
                /\ is_valid_command(text, path)

\* a Fallback suggestion whose text lost a trailing '.' is among those returned
C2_Witness ==
    /\ ReturnedList
    /\ \E i \in 1..Len(result.value) :
          /\ result.value[i].confidence = 6
          /\ Contains(response, result.value[i].command \o <<".">>)
          /\ ~EndsWith(result.value[i].command, ".")

\* C3: Fallback is entered only after Primary has finished with zero
\* suggestions; when Primary yields at least one, Fallback never runs and the
\* returned list is exactly Primary's; Primary is never re-entered after
\* Fallback and no list mixes the two strategies.
C3_FallbackOnlyWhenPrimaryEmpty ==
    [][ /\ (pc' = "fallback" /\ pc # "fallback")
            => (pc = "check_empty" /\ suggestions = <<>>)
        /\ (pc = "check_empty" /\ suggestions # <<>>)
            => (pc' = "parse_return" /\ suggestions' = suggestions /\ ~FallbackRan')
        /\ (pc \in {"fallback", "fallback_flush"})
            => pc' \in {"fallback", "fallback_flush", "parse_return"}
        /\ (pc = "parse_return")
            => /\ pc' = "returned"
               /\ result'.value = suggestions
               /\ \A i, j \in 1..Len(suggestions) :
                      suggestions[i].confidence = suggestions[j].confidence
               /\ (~FallbackRan => \A i \in 1..Len(suggestions) :
                                       suggestions[i].confidence = 8)
      ]_vars

\* Primary found two suggestions, Fallback did not run, they were returned
C3_Witness ==
    /\ ReturnedList
    /\ ~FallbackRan
    /\ Len(result.value) = 2
    /\ result.value = suggestions

\* C4: all suggestions of a returned list carry the same confidence, 0.8 when
\* Primary produced at least one suggestion and 0.6 when Primary produced none
\* and Fallback produced the list; no explanation is ever assigned.
C4_ConfidencePerStrategy ==
    /\ (pc = "check_empty") =>
           \A i \in 1..Len(suggestions) :
               suggestions[i].confidence = 8 /\ suggestions[i].explanation = "None"
    /\ (pc = "check_empty" /\ suggestions # <<>>) => ~FallbackRan
    /\ ReturnedList =>
           \A i \in 1..Len(result.value) :
               /\ result.value[i].confidence = (IF FallbackRan THEN 6 ELSE 8)
               /\ result.value[i].explanation = "None"
    /\ (ReturnedList /\ ~FallbackRan) => result.value # <<>>

\* a list of two Fallback suggestions was returned
C4_Witness ==
    /\ ReturnedList
    /\ FallbackRan
    /\ Len(result.value) >= 2

\* the denylisted substrings, as the claim lists them
Denylist ==
    { <<"r","m"," ","-","r","f"," ","/">>, <<"r","m"," ","-","r","f"," ","*">>,
      <<"d","d"," ","i","f","=">>, <<"m","k","f","s">>, <<"f","d","i","s","k">>,
      <<">"," ","/","d","e","v","/">> }

HasDenylisted(text) == \E d \in Denylist : Contains(text, d)

\* C5: is_valid_command returns false for every candidate that contains a
\* denylisted substring anywhere, whatever its first token is; so no suggestion
\* returned by either strategy contains one.
C5_DenylistRejects ==
    /\ (ReturnedValid /\ HasDenylisted(command)) => valid = FALSE
    /\ ReturnedList =>
           \A i \in 1..Len(result.value) : ~HasDenylisted(result.value[i].command)

\* a denylisted candidate whose first token resolves in PATH was rejected
C5_Witness ==
    /\ ReturnedValid
    /\ HasDenylisted(command)
    /\ FirstWord(command) \in path
    /\ valid = FALSE

\* the acceptance condition of C6, with the candidate's length as measured
C6Accepts(text, length, resolvable) ==
    LET token == FirstWord(text)
    IN  /\ text # <<>>
        /\ length <= 500
        /\ token # <<>>
        /\ ~StartsWith(token, "#")
        /\ \/ token \in resolvable
           \/ Contains(token, <<"/">>)
           \/ token \in {<<"c","d">>, <<"e","c","h","o">>, <<"p","w","d">>, <<"e","x","p","o","r","t">>, <<"a","l","i","a","s">>}

\* C6 as stated: for a candidate without denylisted substring, is_valid_command
\* returns true exactly when the candidate is non-empty, at most 500 characters
\* long, its first token is non-empty, does not begin with '#', and resolves in
\* PATH, contains '/' or is a builtin.
C6_AcceptsExactlyWhenInChars ==
    (ReturnedValid /\ ~HasDenylisted(command))
        => (valid = C6Accepts(command, Len(command), path))

\* C6, amended: the same with the length limit of 500 counted in UTF-8 bytes;
\* the pseudo-command substrings never reject an otherwise accepted candidate.
C6_AcceptsExactlyWhenInBytes ==
    (ReturnedValid /\ ~HasDenylisted(command))
        => (valid = C6Accepts(command, ByteLen(command), path))

\* a candidate containing " query " whose first token resolves was accepted
C6_Witness ==
    /\ ReturnedValid
    /\ Contains(ToLowercase(command), <<" ","q","u","e","r","y"," ">>)
    /\ FirstWord(command) \in path
    /\ valid = TRUE

ParserPositions ==
    {"parse_response", "primary", "check_empty", "fallback", "fallback_flush", "parse_return"}

\* what C7 says of one state of a generate_suggestions call
C7State ==
    op = "generate_suggestions" =>
        /\ engine_calls <= 1
        /\ (pc = "build_prompt") => (enhanced_prompt = <<>> /\ engine_calls = 0)
        /\ (pc = "generate_text") =>
               /\ enhanced_prompt = build_enhanced_prompt(user_prompt, context)
               /\ engine_calls = 0
               /\ engine_status = "none"
        /\ (pc \in ParserPositions) =>
               /\ engine_calls = 1
               /\ engine_status = "exit_zero"
               /\ result.kind = "none"
        /\ (engine_status \in {"not_started", "exit_nonzero"}) =>
               /\ pc = "returned"
               /\ result.kind = "err"
               /\ engine_calls = 1
               /\ li = 0 /\ lines = <<>> /\ suggestions = <<>>
               /\ wi = 0 /\ fb_suggestions = <<>>
        /\ (engine_status = "exit_nonzero") =>
               result.message = <<"llama.cpp execution failed: ">> \o engine_stderr
        /\ (pc = "returned" /\ result.kind = "ok") =>
               /\ engine_calls = 1
               /\ engine_status = "exit_zero"
               /\ li >= 1

\* C7: a request builds the prompt, invokes the engine, then parses, and the
\* engine is invoked exactly once; if it cannot be started or exits non-zero the
\* request ends with an error (with the captured standard error on non-zero
\* exit), nothing is invoked or parsed afterwards and no list is returned.
C7_EngineOnceThenParse ==
    [][ /\ C7State
        /\ C7State'
        /\ pc # "returned"
        /\ engine_calls' >= engine_calls
        /\ (pc = "build_prompt" /\ op = "generate_suggestions") => pc' = "generate_text"
        /\ (pc = "generate_text") => pc' \in {"parse_response", "returned"}
      ]_vars

\* the engine exited non-zero with text on standard error: the request failed
C7_Witness ==
    /\ op = "generate_suggestions"
    /\ pc = "returned"
    /\ engine_status = "exit_nonzero"
    /\ engine_stderr # <<>>
    /\ result.kind = "err"

\* the text of `prompt` strictly between its chunk `from` and its chunk `to`
Section(prompt, from, to) ==
    LET b == CHOOSE i \in 1..Len(prompt) : prompt[i] = from
        e == CHOOSE i \in 1..Len(prompt) : prompt[i] = to
    IN  SubSeq(prompt, b + 1, e - 1)

\* the items of a section written "x, y, z"
Listed(section) ==
    LET raw == Split(section, ",")
    IN  [k \in 1..Len(raw) |-> IF k = 1 THEN raw[k] ELSE Tail(raw[k])]

Range(f) == { f[k] : k \in DOMAIN f }

\* items is the first min(limit, Len(all)) elements of all, and no later
\* element of all (other than a repetition of one of them) is among items
FirstOnly(items, all, limit) ==
    /\ Len(items) <= limit
    /\ Len(items) = (IF Len(all) < limit THEN Len(all) ELSE limit)
    /\ items = SubSeq(all, 1, Len(items))
    /\ \A k \in (Len(items) + 1)..Len(all) :
           (\A j \in 1..Len(items) : all[j] # all[k]) => all[k] \notin Range(items)

\* the lines of the learned text that contain ARROW or CHECK
MarkedLines(text) ==
    SelectSeq(Lines(text), LAMBDA l : "ARROW" \in Range(l) \/ "CHECK" \in Range(l))

\* C8: the prompt lists the first 20 comma-separated "available_tools" entries
\* at most, the first word of the first 3 recent commands at most, and under
\* "Learned patterns" the first 5 lines with ARROW or CHECK at most, each in the
\* original order and verbatim; entries beyond the limits do not appear there.
C8_PromptLimits ==
    (op = "build_enhanced_prompt" /\ pc = "returned") =>
        LET prompt == result.value
            env == context.environment
            marked == MarkedLines(context.content)
        IN  /\ IF "available_tools" \in DOMAIN env
               THEN FirstOnly(Listed(Section(prompt, TplTools, TplRecent)),
                              Split(env["available_tools"], ","), 20)
               ELSE Section(prompt, TplTools, TplRecent) = <<"b","a","s","i","c">>
            /\ IF context.recent_commands = <<>>
               THEN Section(prompt, TplRecent, TplRules) = <<>>
               ELSE FirstOnly(Listed(Section(prompt, TplRecent, TplRules)),
                              [k \in 1..Len(context.recent_commands) |->
                                  FirstWord(context.recent_commands[k])], 3)
            /\ IF marked = <<>>
               THEN TplLearned \notin Range(prompt)
               ELSE /\ TplLearned \in Range(prompt)
                    /\ FirstOnly(Split(Section(prompt, TplLearned, TplCue), "\n"), marked, 5)

\* a prompt was built from more than 20 tools, more than 3 recent commands and
\* more than 5 marked lines
C8_Witness ==
    /\ op = "build_enhanced_prompt"
    /\ pc = "returned"
    /\ "available_tools" \in DOMAIN context.environment
    /\ Len(Split(context.environment["available_tools"], ",")) > 20
    /\ Len(context.recent_commands) > 3
    /\ Len(MarkedLines(context.content)) > 5

\* the conditions C9 puts on a trimmed line, with the line's length as measured
C9Qualifies(line, length, resolvable) ==
    /\ line # <<>>
    /\ ~StartsWith(line, "#")
    /\ length <= 300
    /\ \/ is_command_starter(FirstWord(line))
       \/ Contains(line, <<"-", "-">>)
       \/ (Contains(line, <<"-">>) /\ Len(SplitWhitespace(line)) > 1)
    /\ is_valid_command(line, resolvable)

TrimmedLines == [k \in 1..Len(Lines(response)) |-> Trim(Lines(response)[k])]

\* Primary has finished and its list is in suggestions
PrimaryDone == op = "generate_suggestions" /\ pc = "check_empty"

\* the scenario of C9: the two commands, in order
C9Scenario ==
    (response = Trim(ScenarioLines) /\ <<"l","s">> \in path /\ <<"d","o","c","k","e","r">> \in path
     /\ max_suggestions = 2)
        => Commands(suggestions) = <<<<"l","s"," ","-","l","a">>, <<"d","o","c","k","e","r"," ","p","s"," ","-","a">>>>

\* C9 as stated: for N >= 1 Primary returns, in order, exactly the first N
\* trimmed lines that are non-empty, do not begin with '#', are at most 300
\* characters long, look like a command and pass is_valid_command.
C9_PrimaryFirstNInChars ==
    (PrimaryDone /\ max_suggestions >= 1) =>
        /\ Commands(suggestions) =
               Take(SelectSeq(TrimmedLines, LAMBDA l : C9Qualifies(l, Len(l), path)),
                    max_suggestions)
        /\ C9Scenario

\* C9, amended: the same with the limit of 300 counted in UTF-8 bytes.
C9_PrimaryFirstNInBytes ==
    (PrimaryDone /\ max_suggestions >= 1) =>
        /\ Commands(suggestions) =
               Take(SelectSeq(TrimmedLines, LAMBDA l : C9Qualifies(l, ByteLen(l), path)),
                    max_suggestions)
        /\ C9Scenario

\* Primary finished the scenario output with its two commands
C9_Witness ==
    /\ PrimaryDone
    /\ response = Trim(ScenarioLines)
    /\ max_suggestions = 2
    /\ Commands(suggestions) = <<<<"l","s"," ","-","l","a">>, <<"d","o","c","k","e","r"," ","p","s"," ","-","a">>>>

\* the request of C10 has returned
C10Returned ==
    /\ ReturnedList
    /\ response = ScenarioProse
    /\ <<"d","o","c","k","e","r">> \in path /\ <<"p","s">> \in path /\ <<"Y","o","u">> \notin path

\* C10 as stated: for the prose output Primary yields nothing and Fallback
\* returns a suggestion "docker ps -a to see containers".
C10_OneCandidateFromDocker ==
    C10Returned =>
        /\ FallbackRan
        /\ <<"d","o","c","k","e","r"," ","p","s"," ","-","a"," ","t","o"," ","s","e","e"," ","c","o","n","t","a","i","n","e","r","s">> \in Range(Commands(result.value))

\* C10, amended: Primary yields nothing; Fallback starts one candidate at
\* "docker" and another at "ps", itself a command starter: the first suggestion
\* is "docker", for N >= 2 the second is "ps -a to see containers" (the trailing
\* '.' trimmed), for N >= 3 the list is exactly these two, and no suggestion is
\* "docker ps -a to see containers".
C10_SplitAtEveryStarter ==
    C10Returned =>
        /\ FallbackRan
        /\ Commands(result.value)[1] = <<"d","o","c","k","e","r">>
        /\ <<"d","o","c","k","e","r"," ","p","s"," ","-","a"," ","t","o"," ","s","e","e"," ","c","o","n","t","a","i","n","e","r","s">> \notin Range(Commands(result.value))
        /\ (max_suggestions >= 2) => Commands(result.value)[2] = <<"p","s"," ","-","a"," ","t","o"," ","s","e","e"," ","c","o","n","t","a","i","n","e","r","s">>
        /\ (max_suggestions >= 3) => Commands(result.value) = <<<<"d","o","c","k","e","r">>, <<"p","s"," ","-","a"," ","t","o"," ","s","e","e"," ","c","o","n","t","a","i","n","e","r","s">>>>

\* the prose request returned its two suggestions under a maximum of three
C10_Witness ==
    /\ C10Returned
    /\ max_suggestions = 3
    /\ Len(result.value) = 2

\* the whitespace-delimited tokens of the i-th returned command text
ReturnedTokens(i) == SplitWhitespace(result.value[i].command)

\* the token is a command starter: a vocabulary word after leading punctuation
C11Starter(token) == TrimStartMatches(token, AsciiPunctuation) \in CommandStarters

\* generate_suggestions has returned a list produced by Fallback
ReturnedFallback == ReturnedList /\ FallbackRan

\* C11 as stated: in every suggestion returned by Fallback the first token of
\* the command text is a command starter and no later token is one, texts with
\* trailing '.', '!' or '?' trimmed included.
C11_OnlyFirstTokenStarter ==
    ReturnedFallback =>
        \A i \in 1..Len(result.value) :
            /\ ReturnedTokens(i) # <<>>
            /\ C11Starter(ReturnedTokens(i)[1])
            /\ \A k \in 2..Len(ReturnedTokens(i)) : ~C11Starter(ReturnedTokens(i)[k])

\* C11, amended: the first token is a command starter and no later token is
\* one, except that the last token may be a command starter when it is a word
\* of the raw output with its trailing '.', '!' or '?' characters trimmed.
C11_OnlyFirstTokenStarterBeforeTrim ==
    ReturnedFallback =>
        \A i \in 1..Len(result.value) :
            LET tokens == ReturnedTokens(i)
            IN  /\ tokens # <<>>
                /\ C11Starter(tokens[1])
                /\ \A k \in 2..Len(tokens) :
                       C11Starter(tokens[k]) =>
                           /\ k = Len(tokens)
                           /\ \E w \in Range(words) :
                                  /\ w # tokens[k]
                                  /\ SentenceEnd(w)
                                  /\ TrimEndMatches(w, {".", "!", "?"}) = tokens[k]

\* Fallback returned a text whose last token became a command starter when
\* the sentence punctuation was trimmed
C11_Witness ==
    /\ ReturnedFallback
    /\ \E i \in 1..Len(result.value) :
          /\ Len(ReturnedTokens(i)) >= 2
          /\ C11Starter(ReturnedTokens(i)[1])
          /\ C11Starter(ReturnedTokens(i)[Len(ReturnedTokens(i))])

====
